---- MODULE Spec2Model ----
(***************************************************************************)
(* The voice assistant of Parent Sync (VoiceProvider: request queue,       *)
(* playback handle, audio cache, 429/401 handling) as a state machine.     *)
(*                                                                         *)
(* JavaScript runs every handler to completion; other handlers can only    *)
(* run while an async function is suspended at an await whose promise is   *)
(* settled by the platform (audio bridge, network, timer).  Each action    *)
(* below is therefore one run of the code from one such resumption to the  *)
(* next suspension.  An await of an async function that itself never       *)
(* suspends on the platform yields to micro-tasks only and is not a step.  *)
(*                                                                         *)
(* Strings are sequences of one-character strings.                         *)
(***************************************************************************)
EXTENDS Integers, Sequences, FiniteSets, TLC

(***************************************************************************)
(* Program constants.                                                      *)
(***************************************************************************)
TruncLen == 300
CacheCap == 50
QueueCap == 5
AuthLimit == 3
RetryBase == 5000
RetrySpread == 500

(***************************************************************************)
(* Bounds of the model.                                                    *)
(***************************************************************************)
MaxQueue == 1
MaxPending == 2
MaxBacklog == 5
MaxFailures == 1
MaxAuthFailures == 4
MaxTimers == 1
MaxHandles == 2
MaxPhrases == 52
MaxTexts == 102

(***************************************************************************)
(* Strings and JavaScript values.                                          *)
(***************************************************************************)
Rep(n, c) == [i \in 1..n |-> c]

JStr(s) == [t |-> "string", v |-> s]
JNull == [t |-> "null", v |-> <<>>]
JNum == [t |-> "number", v |-> <<>>]

Ellipsis == <<".", ".", ".">>

EN == <<"e", "n">>
HI_IN == <<"h", "i", "-", "I", "N">>
TE == <<"t", "e">>
KN == <<"k", "n">>
HOME == <<"h", "o", "m", "e">>

LOCAL_AUDIO_LANGUAGES == {<<"e", "n">>, <<"h", "i">>, <<"k", "n">>}
INDO_ARYAN_LANGUAGES ==
    {<<"b", "n">>, <<"p", "a">>, <<"m", "r">>, <<"g", "u">>, <<"h", "i">>}
DRAVIDIAN_LANGUAGES == {<<"t", "e">>, <<"t", "a">>, <<"k", "n">>}

\* text.substring(0, n): the first n characters, the whole text when shorter.
Substring0(s, n) == SubSeq(s, 1, IF Len(s) < n THEN Len(s) ELSE n)

\* languageCode.split("-")[0] || "en"
FirstDash(s) ==
    IF \E i \in 1..Len(s) : s[i] = "-"
    THEN CHOOSE i \in 1..Len(s) : s[i] = "-" /\ \A j \in 1..(i - 1) : s[j] # "-"
    ELSE Len(s) + 1

BaseLanguage(languageCode) ==
    LET head == SubSeq(languageCode, 1, FirstDash(languageCode) - 1)
    IN IF head = <<>> THEN EN ELSE head

\* const cacheKey = `${text}_${languageCode}`
CacheKey(text, languageCode) == text \o <<"_">> \o languageCode

\* speakText, lines 379-381: a route that is neither a string nor null is null.
NormRoute(route) == IF route.t # "string" /\ route.t # "null" THEN JNull ELSE route

\* NormText cutting a text of exactly the limit too.
NormTextOffByOne(text) ==
    IF Len(text) >= TruncLen THEN Substring0(text, TruncLen) \o Ellipsis ELSE text

\* NormText marking a long text without cutting it.
NormTextNoCut(text) == IF Len(text) > TruncLen THEN text \o Ellipsis ELSE text

\* speakText, lines 384-386.
NormText(text) ==
    IF Len(text) > TruncLen THEN Substring0(text, TruncLen) \o Ellipsis ELSE text

\* speakText, lines 389-391 (the default parameter covers undefined).
NormLang(languageCode) ==
    IF languageCode.t # "string" \/ languageCode.v = <<>> THEN EN ELSE languageCode.v

NormRequest(text, languageCode, route) ==
    [text |-> NormText(text),
     languageCode |-> NormLang(languageCode),
     route |-> NormRoute(route)]

(***************************************************************************)
(* Collaborators outside the provider.                                     *)
(***************************************************************************)
\* getAudioForRoute(route, baseLanguage) of ./AudioStorage: the bundled
\* base64 clip of a screen in a language, absent for every other pair.
BundledClips == {<<HOME, <<"h", "i">>>>, <<HOME, <<"e", "n">>>>}

NoAudio == [kind |-> "none", a |-> <<>>, b |-> <<>>, by |-> ""]

getAudioForRoute(route, baseLanguage) ==
    IF <<route, baseLanguage>> \in BundledClips
    THEN [kind |-> "clip", a |-> route, b |-> baseLanguage, by |-> ""]
    ELSE NoAudio

\* response.data.audio[0].audioContent of a successful synthesis of `input`
\* in `sourceLanguage` by the service `serviceId` (the data of lines 293-301).
AudioContent(input, sourceLanguage, serviceId) ==
    [kind |-> "tts", a |-> input, b |-> sourceLanguage, by |-> serviceId]

\* `data:audio/wav;base64,${audioContent}`
AudioUri(content) == [scheme |-> "data:audio/wav;base64", data |-> content]

NoUri == [scheme |-> "", data |-> NoAudio]

(***************************************************************************)
(* State.                                                                  *)
(***************************************************************************)
VARIABLES
    isReady,        \* useState(false), set by setupAudio
    isOnline,       \* useState(true), set by the NetInfo listener
    isMuted,        \* useMute()
    queue,          \* requestQueueRef.current
    processing,     \* processingQueueRef.current
    retryCount,     \* retryCountRef.current
    lastApiCall,    \* lastApiCallTimestampRef.current against Date.now(): 0 as
                    \* constructed, 1 set less than 1000 ms ago, 2 set earlier
    audioCache,     \* the module's Map, as its entries in insertion order
    soundRef,       \* soundRef.current: the id of a sound, or 0 for null
    sounds,         \* the sounds that are playing: records [id, uri]
    drain,          \* position of the processQueue/performSpeak chain
    stopper,        \* position of a stopAudio() call made by a screen
    retryTimers,    \* pending timers of line 352, in arming order
    cooldownTimers  \* number of pending timers of line 364

\* The translation helper (translateBatch and its module-level cache).
VARIABLES
    translationCache,   \* the module's Map, as its entries in insertion order
    tb                  \* the translateBatch call in progress, or the last one

\* NotificationProvider.
VARIABLES
    session,        \* token && role === "parent"
    notifications,  \* useState([])
    unreadCount,    \* useState(0)
    requests        \* the axios requests of the provider that are in flight

\* The chatbot screen.
VARIABLES
    chatHistory,    \* chatHistoryRef.current
    isInitialized,  \* useState(false)
    chat            \* position of handleSend / generateGeminiResponse

voiceVars ==
    <<isReady, isOnline, isMuted, queue, processing, retryCount, lastApiCall,
      audioCache, soundRef, sounds, drain, stopper, retryTimers, cooldownTimers>>

translateVars == <<translationCache, tb>>

notificationVars == <<session, notifications, unreadCount, requests>>

chatVars == <<chatHistory, isInitialized, chat>>

\* The state of the modules other than the voice assistant.
others == <<translateVars, notificationVars, chatVars>>

vars == <<voiceVars, others>>

NoReq == [text |-> <<>>, languageCode |-> <<>>, route |-> JNull]

\* The chain of one processQueue call: where it is suspended (pc), the
\* request it holds, and the isOnline/isMuted its closures captured when the
\* render that started it ran (performSpeak and processQueue are re-created
\* by every render, and the chain keeps calling the ones it was started
\* with).  kind and uri say what performSpeak last turned to for the request
\* (the bundled clip "stored", the cache "cached", the backend "net") and
\* res how that ended ("played" or "rejected" by createAsync, or the
\* backend's answer); they stay until the next request.
DrainAt(pc, req, online, muted, kind, uri, res) ==
    [pc |-> pc, req |-> req, online |-> online, muted |-> muted,
     kind |-> kind, uri |-> uri, res |-> res]

DrainIdle == DrainAt("idle", NoReq, TRUE, FALSE, "none", NoUri, "none")

(***************************************************************************)
(* The audio cache: a Map keeps its keys in insertion order, and set() of  *)
(* a key it holds keeps the key's place.                                   *)
(***************************************************************************)
CacheHas(cache, key) == \E i \in 1..Len(cache) : cache[i].key = key

CacheGet(cache, key) == cache[CHOOSE i \in 1..Len(cache) : cache[i].key = key].uri

CacheSet(cache, key, uri) ==
    IF CacheHas(cache, key)
    THEN [i \in 1..Len(cache) |->
            IF cache[i].key = key THEN [key |-> key, uri |-> uri] ELSE cache[i]]
    ELSE Append(cache, [key |-> key, uri |-> uri])

\* CacheEvict deleting the newest key instead of the oldest.
CacheEvictNewest(cache) ==
    IF Len(cache) > CacheCap THEN SubSeq(cache, 1, Len(cache) - 1) ELSE cache

\* lines 334-337: audioCache.delete(audioCache.keys().next().value)
CacheEvict(cache) == IF Len(cache) > CacheCap THEN Tail(cache) ELSE cache

CachePut(cache, key, uri) == CacheEvict(CacheSet(cache, key, uri))

(***************************************************************************)
(* performSpeak, from a resumption to the next suspension.                 *)
(***************************************************************************)
\* lines 213-219 and 235-241: the bundled clip of the request, if any.
StoredAudio(req) ==
    IF /\ BaseLanguage(req.languageCode) \in LOCAL_AUDIO_LANGUAGES
       /\ req.route.t = "string"
       /\ req.route.v # <<>>
    THEN getAudioForRoute(req.route.v, BaseLanguage(req.languageCode))
    ELSE NoAudio

\* ServiceId with the Dravidian service as the default.
ServiceIdDravidianDefault(sourceLanguage) ==
    IF sourceLanguage \in INDO_ARYAN_LANGUAGES
    THEN "ai4bharat/indic-tts-indo-aryan--gpu-t4"
    ELSE "ai4bharat/indic-tts-dravidian--gpu-t4"

\* lines 279-287
ServiceId(sourceLanguage) ==
    IF sourceLanguage \in DRAVIDIAN_LANGUAGES
    THEN "ai4bharat/indic-tts-dravidian--gpu-t4"
    ELSE "ai4bharat/indic-tts-indo-aryan--gpu-t4"

\* CacheOrNet without the lookup of lines 251-252.
CacheOrNetNoLookup(req, online, muted, cache) ==
    DrainAt("net", req, online, muted, "net", NoUri, "none")

\* lines 250-315: a cached URI is played, anything else is asked of the backend.
CacheOrNet(req, online, muted, cache) ==
    IF CacheHas(cache, CacheKey(req.text, req.languageCode))
    THEN DrainAt("create", req, online, muted, "cached",
                 CacheGet(cache, CacheKey(req.text, req.languageCode)), "none")
    ELSE DrainAt("net", req, online, muted, "net", NoUri, "none")

\* AfterStop without the bundled clips.
AfterStopNoClip(req, online, muted, cache) == CacheOrNet(req, online, muted, cache)

\* What follows a safeStopAudio() that left soundRef.current null: line 187
\* of playStoredAudio when a bundled clip is there (offline the stop is only
\* made with one), lines 250-315 otherwise.
AfterStop(req, online, muted, cache) ==
    IF StoredAudio(req) # NoAudio
    THEN DrainAt("create", req, online, muted, "stored", AudioUri(StoredAudio(req)),
                 "none")
    ELSE CacheOrNet(req, online, muted, cache)

\* EnterSpeak looking into the cache when offline without a bundled clip.
EnterSpeakOfflineCache(req, online, muted, ref, cache) ==
    IF ~online /\ StoredAudio(req) = NoAudio
    THEN IF CacheHas(cache, CacheKey(req.text, req.languageCode))
         THEN DrainAt("create", req, online, muted, "cached",
                      CacheGet(cache, CacheKey(req.text, req.languageCode)), "none")
         ELSE DrainAt("gap", req, online, muted, "none", NoUri, "none")
    ELSE IF ref # 0
         THEN DrainAt("stop", req, online, muted, "none", NoUri, "none")
         ELSE AfterStop(req, online, muted, cache)

\* EnterSpeak without the safeStopAudio() of line 232.
EnterSpeakNoStop(req, online, muted, ref, cache) ==
    IF ~online /\ StoredAudio(req) = NoAudio
    THEN DrainAt("gap", req, online, muted, "none", NoUri, "none")
    ELSE AfterStop(req, online, muted, cache)

\* performSpeak up to its first suspension, with soundRef.current = ref.
\* Offline without a bundled clip it returns at once (line 227), and
\* processQueue arms the 500 ms timer.
EnterSpeak(req, online, muted, ref, cache) ==
    IF ~online /\ StoredAudio(req) = NoAudio
    THEN DrainAt("gap", req, online, muted, "none", NoUri, "none")
    ELSE IF ref # 0
         THEN DrainAt("stop", req, online, muted, "none", NoUri, "none")
         ELSE AfterStop(req, online, muted, cache)

\* line 267: the timestamp is set when the backend is called.
Stamp(d) == IF d.pc = "net" THEN 1 ELSE lastApiCall

\* stopAsync() is asked of the sound soundRef.current names (lines 112-114).
StopSound(ref, playing) == {s \in playing : s.id # ref}

\* ProcessQueue taking the newest request (pop) instead of the oldest (shift).
ProcessQueueLast(q, online, muted, wait) ==
    IF q = <<>>
    THEN /\ processing' = FALSE
         /\ queue' = q
         /\ drain' = DrainIdle
         /\ UNCHANGED <<lastApiCall, sounds>>
    ELSE /\ processing' = TRUE
         /\ queue' = SubSeq(q, 1, Len(q) - 1)
         /\ drain' = IF wait
                     THEN DrainAt("throttle", q[Len(q)], online, muted, "none", NoUri,
                                  "none")
                     ELSE EnterSpeak(q[Len(q)], online, muted, soundRef, audioCache)
         /\ lastApiCall' = Stamp(drain')
         /\ sounds' = IF drain'.pc = "stop" THEN StopSound(soundRef, sounds) ELSE sounds

\* ProcessQueue leaving the flag set when it finds the queue empty.
ProcessQueueKeepsFlag(q, online, muted, wait) ==
    IF q = <<>>
    THEN /\ queue' = q
         /\ drain' = DrainIdle
         /\ UNCHANGED <<processing, lastApiCall, sounds>>
    ELSE /\ processing' = TRUE
         /\ queue' = Tail(q)
         /\ drain' = IF wait
                     THEN DrainAt("throttle", Head(q), online, muted, "none", NoUri,
                                  "none")
                     ELSE EnterSpeak(Head(q), online, muted, soundRef, audioCache)
         /\ lastApiCall' = Stamp(drain')
         /\ sounds' = IF drain'.pc = "stop" THEN StopSound(soundRef, sounds) ELSE sounds

\* processQueue (lines 152-180) on the queue q, called by closures that
\* captured `online` and `muted`; `wait` says whether less than a second
\* has passed since the last backend call (lines 163-169).
ProcessQueue(q, online, muted, wait) ==
    IF q = <<>>
    THEN /\ processing' = FALSE
         /\ queue' = q
         /\ drain' = DrainIdle
         /\ UNCHANGED <<lastApiCall, sounds>>
    ELSE /\ processing' = TRUE
         /\ queue' = Tail(q)
         /\ drain' = IF wait
                     THEN DrainAt("throttle", Head(q), online, muted, "none", NoUri,
                                  "none")
                     ELSE EnterSpeak(Head(q), online, muted, soundRef, audioCache)
         /\ lastApiCall' = Stamp(drain')
         /\ sounds' = IF drain'.pc = "stop" THEN StopSound(soundRef, sounds) ELSE sounds

\* Waits of a processQueue without the throttle of lines 163-169.
WaitsNever == {FALSE}

\* lines 163-165: timeSinceLastCall < 1000
Waits == IF lastApiCall = 1 THEN {TRUE} ELSE {FALSE}

(***************************************************************************)
(* The facade.                                                             *)
(***************************************************************************)
\* setupAudio, lines 77-89: ready whether or not the audio mode was set.
SetupAudio ==
    /\ ~isReady
    /\ isReady' = TRUE
    /\ UNCHANGED <<others, isOnline, isMuted, queue, processing, retryCount, lastApiCall,
                   audioCache, soundRef, sounds, drain, stopper, retryTimers,
                   cooldownTimers>>

\* The NetInfo listener, lines 94-96.
NetInfoChange ==
    /\ isOnline' = ~isOnline
    /\ UNCHANGED <<others, isReady, isMuted, queue, processing, retryCount, lastApiCall,
                   audioCache, soundRef, sounds, drain, stopper, retryTimers,
                   cooldownTimers>>

\* The mute context changes its flag.
MuteChange ==
    /\ isMuted' = ~isMuted
    /\ UNCHANGED <<others, isReady, isOnline, queue, processing, retryCount, lastApiCall,
                   audioCache, soundRef, sounds, drain, stopper, retryTimers,
                   cooldownTimers>>

\* SpeakText without the isMuted test of line 374.
SpeakTextWhileMuted(text, languageCode, route) ==
    /\ IF ~isReady \/ text = <<>>
       THEN UNCHANGED <<queue, processing, drain, lastApiCall, sounds>>
       ELSE IF processing
            THEN /\ queue' = Append(queue, NormRequest(text, languageCode, route))
                 /\ UNCHANGED <<processing, drain, lastApiCall, sounds>>
            ELSE \E wait \in Waits :
                    ProcessQueue(Append(queue, NormRequest(text, languageCode, route)),
                                 isOnline, isMuted, wait)
    /\ UNCHANGED <<others, isReady, isOnline, isMuted, retryCount, audioCache, soundRef,
                   stopper, retryTimers, cooldownTimers>>

\* speakText, lines 373-400, of the current render.
SpeakText(text, languageCode, route) ==
    /\ IF ~isReady \/ text = <<>> \/ isMuted
       THEN UNCHANGED <<queue, processing, drain, lastApiCall, sounds>>
       ELSE IF processing
            THEN /\ queue' = Append(queue, NormRequest(text, languageCode, route))
                 /\ UNCHANGED <<processing, drain, lastApiCall, sounds>>
            ELSE \E wait \in Waits :
                    ProcessQueue(Append(queue, NormRequest(text, languageCode, route)),
                                 isOnline, isMuted, wait)
    /\ UNCHANGED <<others, isReady, isOnline, isMuted, retryCount, audioCache, soundRef,
                   stopper, retryTimers, cooldownTimers>>

(***************************************************************************)
(* safeStopAudio (lines 110-130) inside the chain.                         *)
(***************************************************************************)
\* stopAsync() settled.  soundRef.current is read again for unloadAsync():
\* null by now, the TypeError is caught and the function ends at line 125.
DrainStopSettled ==
    /\ drain.pc = "stop"
    /\ IF soundRef = 0
       THEN /\ drain' = AfterStop(drain.req, drain.online, drain.muted, audioCache)
            /\ lastApiCall' = Stamp(drain')
            /\ UNCHANGED sounds
       ELSE /\ drain' = [drain EXCEPT !.pc = "unload"]
            /\ sounds' = StopSound(soundRef, sounds)
            /\ UNCHANGED lastApiCall
    /\ UNCHANGED <<others, isReady, isOnline, isMuted, queue, processing, retryCount,
                   audioCache, soundRef, stopper, retryTimers, cooldownTimers>>

\* unloadAsync() settled: line 125, then performSpeak goes on.
DrainUnloadSettled ==
    /\ drain.pc = "unload"
    /\ soundRef' = 0
    /\ drain' = AfterStop(drain.req, drain.online, drain.muted, audioCache)
    /\ lastApiCall' = Stamp(drain')
    /\ UNCHANGED <<others, isReady, isOnline, isMuted, queue, processing, retryCount,
                   audioCache, sounds, stopper, retryTimers, cooldownTimers>>

(***************************************************************************)
(* Audio.Sound.createAsync settles.                                        *)
(***************************************************************************)
UsedIds == {s.id : s \in sounds} \cup {soundRef}

FreshId == CHOOSE i \in 1..MaxHandles : i \notin UsedIds /\ \A j \in 1..(i - 1) : j \in UsedIds

\* The sound is loaded and playing: lines 198, 261, 345-346.
CreateResolved ==
    /\ drain.pc = "create"
    /\ \E i \in 1..MaxHandles : i \notin UsedIds
    /\ sounds' = sounds \cup {[id |-> FreshId, uri |-> drain.uri]}
    /\ soundRef' = FreshId
    /\ retryCount' = IF drain.kind = "net" THEN 0 ELSE retryCount
    /\ drain' = [drain EXCEPT !.pc = "gap", !.res = "played"]
    /\ UNCHANGED <<others, isReady, isOnline, isMuted, queue, processing, lastApiCall,
                   audioCache, stopper, retryTimers, cooldownTimers>>

\* The sound could not be created.  A bundled clip: playStoredAudio returns
\* false (line 201); offline performSpeak returns, online it goes on to the
\* cache and the backend (line 246).  A cached or synthesized URI: the catch
\* of line 347 counts it, and error.response is undefined.
CreateRejected ==
    /\ drain.pc = "create"
    /\ IF drain.kind = "stored"
       THEN /\ drain' = IF drain.online
                        THEN CacheOrNet(drain.req, drain.online, drain.muted, audioCache)
                        ELSE [drain EXCEPT !.pc = "gap", !.res = "rejected"]
            /\ lastApiCall' = Stamp(drain')
            /\ UNCHANGED retryCount
       ELSE /\ retryCount' = retryCount + 1
            /\ drain' = [drain EXCEPT !.pc = "gap", !.res = "rejected"]
            /\ UNCHANGED lastApiCall
    /\ UNCHANGED <<others, isReady, isOnline, isMuted, queue, processing, audioCache,
                   soundRef, sounds, stopper, retryTimers, cooldownTimers>>

(***************************************************************************)
(* The backend answers (lines 290-368).                                    *)
(***************************************************************************)
\* A response with audio content: lines 317-343.
NetAudio ==
    /\ drain.pc = "net"
    /\ IF drain.muted
       THEN /\ drain' = [drain EXCEPT !.pc = "gap", !.res = "muted"]
            /\ UNCHANGED audioCache
       ELSE LET sourceLanguage == BaseLanguage(drain.req.languageCode)
                uri == AudioUri(AudioContent(drain.req.text, sourceLanguage,
                                             ServiceId(sourceLanguage)))
            IN /\ audioCache' = CachePut(audioCache,
                                         CacheKey(drain.req.text, drain.req.languageCode),
                                         uri)
               /\ drain' = [drain EXCEPT !.pc = "create", !.uri = uri]
    /\ UNCHANGED <<others, isReady, isOnline, isMuted, queue, processing, retryCount,
                   lastApiCall, soundRef, sounds, stopper, retryTimers, cooldownTimers>>

\* A 2xx response without audio content: muted, line 318 returns; otherwise
\* line 324 throws and the catch counts it.
NetEmpty ==
    /\ drain.pc = "net"
    /\ IF drain.muted
       THEN /\ drain' = [drain EXCEPT !.pc = "gap", !.res = "muted"]
            /\ UNCHANGED retryCount
       ELSE /\ drain' = [drain EXCEPT !.pc = "gap", !.res = "empty"]
            /\ retryCount' = retryCount + 1
    /\ UNCHANGED <<others, isReady, isOnline, isMuted, queue, processing, lastApiCall,
                   audioCache, soundRef, sounds, stopper, retryTimers, cooldownTimers>>

\* 5000 + Math.random() * 500, line 360
RetryDelays == {RetryBase, RetryBase + RetrySpread - 1}

\* HTTP 429: lines 348-360 arm the retry timer.
Net429 ==
    /\ drain.pc = "net"
    /\ retryCount' = retryCount + 1
    /\ \E delay \in RetryDelays :
          retryTimers' = Append(retryTimers,
                                [req |-> drain.req, delay |-> delay,
                                 online |-> drain.online, muted |-> drain.muted])
    /\ drain' = [drain EXCEPT !.pc = "gap", !.res = "429"]
    /\ UNCHANGED <<others, isReady, isOnline, isMuted, queue, processing, lastApiCall,
                   audioCache, soundRef, sounds, stopper, cooldownTimers>>

\* Net401 arming the retry timer of a 429.
Net401Retries ==
    /\ drain.pc = "net"
    /\ retryCount' = retryCount + 1
    /\ retryTimers' = Append(retryTimers,
                             [req |-> drain.req, delay |-> RetryBase,
                              online |-> drain.online, muted |-> drain.muted])
    /\ drain' = [drain EXCEPT !.pc = "gap", !.res = "401"]
    /\ UNCHANGED <<others, isReady, isOnline, isMuted, queue, processing, lastApiCall,
                   audioCache, soundRef, sounds, stopper, cooldownTimers>>

\* HTTP 401: lines 348 and 361-367.
Net401 ==
    /\ drain.pc = "net"
    /\ retryCount' = retryCount + 1
    /\ IF retryCount' > AuthLimit
       THEN cooldownTimers' = cooldownTimers + 1
       ELSE UNCHANGED cooldownTimers
    /\ drain' = [drain EXCEPT !.pc = "gap", !.res = "401"]
    /\ UNCHANGED <<others, isReady, isOnline, isMuted, queue, processing, lastApiCall,
                   audioCache, soundRef, sounds, stopper, retryTimers>>

\* NetFailed with the error leaving processQueue: no timer of line 177.
NetFailedEscapes ==
    /\ drain.pc = "net"
    /\ retryCount' = retryCount + 1
    /\ drain' = DrainIdle
    /\ UNCHANGED <<others, isReady, isOnline, isMuted, queue, processing, lastApiCall,
                   audioCache, soundRef, sounds, stopper, retryTimers, cooldownTimers>>

\* Any other failure of the call (timeout, no connection, another status).
NetFailed ==
    /\ drain.pc = "net"
    /\ retryCount' = retryCount + 1
    /\ drain' = [drain EXCEPT !.pc = "gap", !.res = "failed"]
    /\ UNCHANGED <<others, isReady, isOnline, isMuted, queue, processing, lastApiCall,
                   audioCache, soundRef, sounds, stopper, retryTimers, cooldownTimers>>

(***************************************************************************)
(* Timers.                                                                 *)
(***************************************************************************)
\* The clock reaches the 1000th millisecond after the last backend call.
SecondElapsed ==
    /\ lastApiCall = 1
    /\ lastApiCall' = 2
    /\ UNCHANGED <<others, isReady, isOnline, isMuted, queue, processing, retryCount,
                   audioCache, soundRef, sounds, drain, stopper, retryTimers,
                   cooldownTimers>>

\* The timer of lines 166-168, set for what was missing to 1000 ms, fires:
\* performSpeak is called.
ThrottleElapsed ==
    /\ drain.pc = "throttle"
    /\ lastApiCall # 1
    /\ drain' = EnterSpeak(drain.req, drain.online, drain.muted, soundRef, audioCache)
    /\ lastApiCall' = Stamp(drain')
    /\ sounds' = IF drain'.pc = "stop" THEN StopSound(soundRef, sounds) ELSE sounds
    /\ UNCHANGED <<others, isReady, isOnline, isMuted, queue, processing, retryCount,
                   audioCache, soundRef, stopper, retryTimers, cooldownTimers>>

\* GapElapsed of a processQueue that ends after one request.
GapElapsedStops ==
    /\ drain.pc = "gap"
    /\ drain' = DrainIdle
    /\ processing' = FALSE
    /\ UNCHANGED <<others, isReady, isOnline, isMuted, queue, retryCount, lastApiCall,
                   audioCache, soundRef, sounds, stopper, retryTimers, cooldownTimers>>

\* The 500 ms timer of lines 177-179 fires: processQueue again.
GapElapsed ==
    /\ drain.pc = "gap"
    /\ \E wait \in Waits : ProcessQueue(queue, drain.online, drain.muted, wait)
    /\ UNCHANGED <<others, isReady, isOnline, isMuted, retryCount, audioCache, soundRef,
                   stopper, retryTimers, cooldownTimers>>

RemoveAt(seq, i) == SubSeq(seq, 1, i - 1) \o SubSeq(seq, i + 1, Len(seq))

\* RetryPush with <= for <.
RetryPushOffByOne(q, req) == IF Len(q) <= QueueCap THEN Append(q, req) ELSE q

\* lines 353-359: the queue the retry timer leaves (before any drain it starts).
RetryPush(q, req) == IF Len(q) < QueueCap THEN Append(q, req) ELSE q

\* RetryElapsed without the test of line 356.
RetryElapsedAlwaysStarts ==
    \E i \in 1..Len(retryTimers) :
        /\ retryTimers' = RemoveAt(retryTimers, i)
        /\ IF Len(queue) < QueueCap
           THEN \E wait \in Waits :
                    ProcessQueue(RetryPush(queue, retryTimers[i].req),
                                 retryTimers[i].online, retryTimers[i].muted, wait)
           ELSE UNCHANGED <<queue, processing, drain, lastApiCall, sounds>>
        /\ UNCHANGED <<others, isReady, isOnline, isMuted, retryCount, audioCache, soundRef,
                       stopper, cooldownTimers>>

\* A retry timer of line 352 fires.
RetryElapsed ==
    \E i \in 1..Len(retryTimers) :
        /\ retryTimers' = RemoveAt(retryTimers, i)
        /\ IF Len(queue) < QueueCap /\ ~processing
           THEN \E wait \in Waits :
                    ProcessQueue(RetryPush(queue, retryTimers[i].req),
                                 retryTimers[i].online, retryTimers[i].muted, wait)
           ELSE /\ queue' = RetryPush(queue, retryTimers[i].req)
                /\ UNCHANGED <<processing, drain, lastApiCall, sounds>>
        /\ UNCHANGED <<others, isReady, isOnline, isMuted, retryCount, audioCache, soundRef,
                       stopper, cooldownTimers>>

\* The five-minute timer of line 364 fires.
CooldownElapsed ==
    /\ cooldownTimers > 0
    /\ cooldownTimers' = cooldownTimers - 1
    /\ retryCount' = 0
    /\ UNCHANGED <<others, isReady, isOnline, isMuted, queue, processing, lastApiCall,
                   audioCache, soundRef, sounds, drain, stopper, retryTimers>>

(***************************************************************************)
(* stopAudio called by a screen (lines 132-134), and playback that ends.   *)
(***************************************************************************)
\* StopAudio emptying the queue as well.
StopAudioClearsQueue ==
    /\ stopper = "idle"
    /\ IF soundRef = 0
       THEN UNCHANGED <<stopper, sounds>>
       ELSE /\ stopper' = "stop"
            /\ sounds' = StopSound(soundRef, sounds)
    /\ queue' = <<>>
    /\ UNCHANGED <<others, isReady, isOnline, isMuted, processing, retryCount,
                   lastApiCall, audioCache, soundRef, drain, retryTimers,
                   cooldownTimers>>

\* stopAudio() up to its first suspension; with no sound held it returns.
StopAudio ==
    /\ stopper = "idle"
    /\ IF soundRef = 0
       THEN UNCHANGED <<stopper, sounds>>
       ELSE /\ stopper' = "stop"
            /\ sounds' = StopSound(soundRef, sounds)
    /\ UNCHANGED <<others, isReady, isOnline, isMuted, queue, processing, retryCount,
                   lastApiCall, audioCache, soundRef, drain, retryTimers,
                   cooldownTimers>>

StopperStopSettled ==
    /\ stopper = "stop"
    /\ IF soundRef = 0
       THEN /\ stopper' = "idle"
            /\ UNCHANGED sounds
       ELSE /\ stopper' = "unload"
            /\ sounds' = StopSound(soundRef, sounds)
    /\ UNCHANGED <<others, isReady, isOnline, isMuted, queue, processing, retryCount,
                   lastApiCall, audioCache, soundRef, drain, retryTimers,
                   cooldownTimers>>

StopperUnloadSettled ==
    /\ stopper = "unload"
    /\ stopper' = "idle"
    /\ soundRef' = 0
    /\ UNCHANGED <<others, isReady, isOnline, isMuted, queue, processing, retryCount,
                   lastApiCall, audioCache, sounds, drain, retryTimers,
                   cooldownTimers>>

\* handlePlaybackStatus (lines 137-149) with didJustFinish, for a sound that
\* played to its end: whatever soundRef.current names is unloaded.
PlaybackFinished ==
    \E s \in sounds :
        /\ sounds' = StopSound(soundRef, sounds \ {s})
        /\ soundRef' = 0
        /\ UNCHANGED <<others, isReady, isOnline, isMuted, queue, processing, retryCount,
                       lastApiCall, audioCache, drain, stopper, retryTimers,
                       cooldownTimers>>

(***************************************************************************)
(* The specifications.                                                     *)
(***************************************************************************)
LongText == Rep(TruncLen + 1, "a")
EdgeText == Rep(TruncLen, "a")
Hi == <<"H", "i">>
Ok == <<"O", "k">>

(***************************************************************************)
(* translateBatch (part_000).  A call runs from its entry, or from the     *)
(* settling of a fetch or of a back-off timer, to its next await.  The     *)
(* backend is free in its answers.                                         *)
(***************************************************************************)
MAX_RETRIES == 3
TranslationCacheCap == 100
ShortLen == 5

Dot == <<".">>
Blank == <<" ", " ">>
Hello == <<"H", "e", "l", "l", "o">>
\* A translation, as the backend words it.
Tr == <<"t", "r">>

RECURSIVE TrimStart(_)
TrimStart(s) == IF s # <<>> /\ Head(s) = " " THEN TrimStart(Tail(s)) ELSE s

RECURSIVE TrimEnd(_)
TrimEnd(s) ==
    IF s # <<>> /\ s[Len(s)] = " " THEN TrimEnd(SubSeq(s, 1, Len(s) - 1)) ELSE s

Trim(s) == TrimEnd(TrimStart(s))

EndsWith(s, c) == s # <<>> /\ s[Len(s)] = c

SliceLast(s) == SubSeq(s, 1, Len(s) - 1)

\* texts: a string, an array of strings or an array of {source} objects,
\* as its shape and the strings it holds.
TextsString(s) == [shape |-> "string", items |-> <<s>>]
TextsArray(ss) == [shape |-> "strings", items |-> ss]
TextsObjects(ss) == [shape |-> "objects", items |-> ss]

\* lines 20-35
ProcessedInputs(texts) == texts.items

\* lines 38-42: JSON.stringify of strings, arrays and objects of strings
\* gives different documents for different values, so the key is the value.
TranslationCacheKey(texts, sourceLanguage, targetLanguage) ==
    <<texts, sourceLanguage, targetLanguage>>

TranslationCacheHas(cache, key) == \E i \in 1..Len(cache) : cache[i].key = key

TranslationCacheGet(cache, key) ==
    cache[CHOOSE i \in 1..Len(cache) : cache[i].key = key].value

\* Map.prototype.set: a known key keeps its place.
TranslationCacheSet(cache, key, value) ==
    IF TranslationCacheHas(cache, key)
    THEN [i \in 1..Len(cache) |->
             IF cache[i].key = key THEN [key |-> key, value |-> value] ELSE cache[i]]
    ELSE Append(cache, [key |-> key, value |-> value])

\* lines 195-202
TranslationCacheStore(cache, key, value) ==
    LET c == TranslationCacheSet(cache, key, value)
    IN  IF Len(c) > TranslationCacheCap THEN Tail(c) ELSE c

\* The body of a 200 answer: data.output is a string, an array of {target}
\* or missing.
OutString(s) == [t |-> "string", v |-> s]
OutArray(ts) == [t |-> "array", v |-> ts]
OutNone == [t |-> "undefined", v |-> <<>>]

Outputs ==
    {OutString(Tr), OutString(Tr \o Dot), OutString(Dot), OutArray(<<Tr>>),
     OutArray(<<>>), OutNone}

\* lines 143-151
TranslatedText(output) ==
    IF output.t = "string"
    THEN output.v
    ELSE IF output.t = "array" /\ Len(output.v) > 0
         THEN output.v[1]
         ELSE <<>>

\* lines 65-72
ModifiedInput(inputText) ==
    IF Len(inputText) < ShortLen THEN inputText \o Dot ELSE inputText

\* lines 153-163: what a 200 answer adds to translations.
StoredTranslation(inputText, output) ==
    LET translatedText ==
            IF /\ Len(inputText) < ShortLen
               /\ ModifiedInput(inputText) # inputText
               /\ EndsWith(TranslatedText(output), ".")
            THEN SliceLast(TranslatedText(output))
            ELSE TranslatedText(output)
    IN  IF translatedText # <<>> THEN translatedText ELSE inputText

\* The call: where it is suspended (pc), its arguments, the index of the
\* item whose fetch is awaited, translations, what the backend said for
\* each item of this pass (answers), and what the call returned.
NoTexts == TextsArray(<<>>)

TbAt(pc, texts, src, tgt, retry, i, translations, answers, result, hit) ==
    [pc |-> pc, texts |-> texts, sourceLanguage |-> src, targetLanguage |-> tgt,
     retryCount |-> retry, i |-> i, translations |-> translations,
     answers |-> answers, result |-> result, hit |-> hit]

TbIdle == TbAt("idle", NoTexts, <<>>, <<>>, 0, 0, <<>>, <<>>, <<>>, FALSE)

NoAnswer == [kind |-> "none", text |-> <<>>]

\* Result where an empty translation stays empty.
ResultNoFallback(f) ==
    [index \in 1..Len(f.translations) |->
        [source |-> f.texts.items[index], target |-> f.translations[index]]]

\* lines 171-189: the output of the result.
Result(f) ==
    IF f.texts.shape = "objects" /\ Len(f.texts.items) > 0
    THEN [index \in 1..Len(f.texts.items) |->
             [source |-> f.texts.items[index],
              target |-> IF index <= Len(f.translations) /\ f.translations[index] # <<>>
                         THEN f.translations[index]
                         ELSE f.texts.items[index]]]
    ELSE [index \in 1..Len(f.translations) |->
             [source |-> f.texts.items[index],
              target |-> IF f.translations[index] # <<>>
                         THEN f.translations[index]
                         ELSE f.texts.items[index]]]

\* lines 54-61: the loop from item f.i on, up to the next fetch or its end.
RECURSIVE Loop(_)
Loop(f) ==
    IF f.i > Len(ProcessedInputs(f.texts))
    THEN [f EXCEPT !.pc = "store"]
    ELSE IF Trim(ProcessedInputs(f.texts)[f.i]) = <<>>
         THEN Loop([f EXCEPT !.i = f.i + 1,
                             !.translations = Append(f.translations, <<>>),
                             !.answers = Append(f.answers, NoAnswer)])
         ELSE [f EXCEPT !.pc = "fetch"]

\* lines 54-204: the loop goes on; at its end the result is cached and
\* returned.  The value is the pair of the call and the cache.
Advance(f, cache) ==
    LET g == Loop(f)
    IN  IF g.pc = "store"
        THEN <<[g EXCEPT !.pc = "done", !.result = Result(g)],
               TranslationCacheStore(cache,
                   TranslationCacheKey(g.texts, g.sourceLanguage, g.targetLanguage),
                   Result(g))>>
        ELSE <<g, cache>>

\* Enter without the lookup of lines 44-48.
EnterNoLookup(texts, src, tgt, retry, cache) ==
    Advance(TbAt("loop", texts, src, tgt, retry, 1, <<>>, <<>>, <<>>, FALSE), cache)

\* lines 16-61: the entry of translateBatch, up to its first await.
Enter(texts, src, tgt, retry, cache) ==
    IF TranslationCacheHas(cache, TranslationCacheKey(texts, src, tgt))
    THEN <<TbAt("done", texts, src, tgt, retry, 0, <<>>, <<>>,
                TranslationCacheGet(cache, TranslationCacheKey(texts, src, tgt)), TRUE),
           cache>>
    ELSE Advance(TbAt("loop", texts, src, tgt, retry, 1, <<>>, <<>>, <<>>, FALSE), cache)

\* The item whose fetch is awaited.
InputText == ProcessedInputs(tb.texts)[tb.i]

\* translations.push(t); continue, the backend having said a.
Pushed(t, a) ==
    Advance([tb EXCEPT !.i = tb.i + 1,
                       !.translations = Append(tb.translations, t),
                       !.answers = Append(tb.answers, a)],
            translationCache)

\* A caller calls translateBatch(texts, sourceLanguage, targetLanguage).
TranslateBatch(texts, src, tgt) ==
    /\ tb.pc \in {"idle", "done"}
    /\ tb' = Enter(texts, src, tgt, 0, translationCache)[1]
    /\ translationCache' = Enter(texts, src, tgt, 0, translationCache)[2]
    /\ UNCHANGED <<voiceVars, notificationVars, chatVars>>

\* lines 140-163: the fetch resolves with 200 and a body.
Fetch200 ==
    /\ tb.pc = "fetch"
    /\ \E output \in Outputs :
          /\ tb' = Pushed(StoredTranslation(InputText, output),
                          [kind |-> "200", text |-> TranslatedText(output)])[1]
          /\ translationCache' =
                 Pushed(StoredTranslation(InputText, output),
                        [kind |-> "200", text |-> TranslatedText(output)])[2]
    /\ UNCHANGED <<voiceVars, notificationVars, chatVars>>

\* lines 121-129
Fetch403 ==
    /\ tb.pc = "fetch"
    /\ tb' = Pushed(InputText, [kind |-> "403", text |-> <<>>])[1]
    /\ translationCache' = Pushed(InputText, [kind |-> "403", text |-> <<>>])[2]
    /\ UNCHANGED <<voiceVars, notificationVars, chatVars>>

\* lines 131-138: a status that is neither 2xx, 403 nor 429.
FetchNotOk ==
    /\ tb.pc = "fetch"
    /\ tb' = Pushed(InputText, [kind |-> "status", text |-> <<>>])[1]
    /\ translationCache' = Pushed(InputText, [kind |-> "status", text |-> <<>>])[2]
    /\ UNCHANGED <<voiceVars, notificationVars, chatVars>>

\* lines 164-168: fetch rejects, or response.json() does.
FetchFailed ==
    /\ tb.pc = "fetch"
    /\ tb' = Pushed(InputText, [kind |-> "failed", text |-> <<>>])[1]
    /\ translationCache' = Pushed(InputText, [kind |-> "failed", text |-> <<>>])[2]
    /\ UNCHANGED <<voiceVars, notificationVars, chatVars>>

\* Line 99 with <= for <.
MayRestartInclusive(retry) == retry <= MAX_RETRIES

\* line 99
MayRestart(retry) == retry < MAX_RETRIES

\* lines 97-119: below the limit the call waits and starts over; at the
\* limit the throw of line 118 lands in the catch of line 164.
Fetch429 ==
    /\ tb.pc = "fetch"
    /\ IF MayRestart(tb.retryCount)
       THEN /\ tb' = [tb EXCEPT !.pc = "backoff"]
            /\ UNCHANGED translationCache
       ELSE /\ tb' = Pushed(InputText, [kind |-> "429", text |-> <<>>])[1]
            /\ translationCache' = Pushed(InputText, [kind |-> "429", text |-> <<>>])[2]
    /\ UNCHANGED <<voiceVars, notificationVars, chatVars>>

\* lines 107-116: the timer fires and the call starts over, one retry up.
BackoffElapsed ==
    /\ tb.pc = "backoff"
    /\ tb' = Enter(tb.texts, tb.sourceLanguage, tb.targetLanguage,
                   tb.retryCount + 1, translationCache)[1]
    /\ translationCache' = Enter(tb.texts, tb.sourceLanguage, tb.targetLanguage,
                                 tb.retryCount + 1, translationCache)[2]
    /\ UNCHANGED <<voiceVars, notificationVars, chatVars>>

\* The steps that settle an await of translateBatch.
TranslateStep ==
    \/ Fetch200
    \/ Fetch403
    \/ FetchNotOk
    \/ FetchFailed
    \/ Fetch429
    \/ BackoffElapsed

(***************************************************************************)
(* NotificationProvider (notificationContext.js).  The two setState calls  *)
(* of a handler are applied together; a request is in flight from its call *)
(* to the step that settles it.                                            *)
(***************************************************************************)
MaxRequests == 2
MaxNotifications == 3

\* A notification of the server, and the data of a push message, which
\* carries a notificationId and neither _id (0 here) nor isRead.
Notification(id, isRead) == [id |-> id, isRead |-> isRead]
Pushed0 == Notification(0, FALSE)

\* What GET /api/notifications may answer with.
ServerLists ==
    {<<>>,
     <<Notification(1, FALSE)>>,
     <<Notification(1, FALSE), Notification(2, TRUE)>>,
     <<Notification(1, FALSE), Notification(2, FALSE)>>,
     <<Notification(1, TRUE), Notification(2, TRUE)>>}

\* lines 79-81
Unread(list) == Cardinality({i \in 1..Len(list) : ~list[i].isRead})

Max0(n) == IF n > 0 THEN n ELSE 0

\* lines 50-54: the token arrives and the effect fetches.
Login ==
    /\ ~session
    /\ session' = TRUE
    /\ requests' = Append(requests, [op |-> "fetch", skip |-> 0, base |-> <<>>, id |-> 0])
    /\ UNCHANGED <<notifications, unreadCount>>
    /\ UNCHANGED <<voiceVars, translateVars, chatVars>>

\* lines 57-68: fetchNotifications() of a screen, up to its await.
FetchNotifications ==
    /\ session
    /\ requests' = Append(requests, [op |-> "fetch", skip |-> 0, base |-> <<>>, id |-> 0])
    /\ UNCHANGED <<session, notifications, unreadCount>>
    /\ UNCHANGED <<voiceVars, translateVars, chatVars>>

\* lines 161-163 and 57-68: the list of the render is kept by the call.
LoadMoreNotifications ==
    /\ session
    /\ requests' = Append(requests, [op |-> "fetch", skip |-> Len(notifications),
                                     base |-> notifications, id |-> 0])
    /\ UNCHANGED <<session, notifications, unreadCount>>
    /\ UNCHANGED <<voiceVars, translateVars, chatVars>>

\* lines 70-83: the list of a successful answer, after that of the call when
\* skip is not 0.
NewNotifications(req, list) == IF req.skip = 0 THEN list ELSE req.base \o list

\* lines 70-86: a fetch settles; success is response.data.success.
FetchSettled ==
    \E i \in 1..Len(requests) :
       /\ requests[i].op = "fetch"
       /\ requests' = RemoveAt(requests, i)
       /\ \/ \E list \in ServerLists :
                /\ Len(NewNotifications(requests[i], list)) <= MaxNotifications
                /\ notifications' = NewNotifications(requests[i], list)
                /\ unreadCount' = Unread(NewNotifications(requests[i], list))
          \/ UNCHANGED <<notifications, unreadCount>>
       /\ UNCHANGED session
       /\ UNCHANGED <<voiceVars, translateVars, chatVars>>

\* lines 21-32: a push message with a notificationId arrives.
NotificationReceived ==
    /\ session
    /\ notifications' = <<Pushed0>> \o notifications
    /\ unreadCount' = unreadCount + 1
    /\ UNCHANGED <<session, requests>>
    /\ UNCHANGED <<voiceVars, translateVars, chatVars>>

\* lines 90-102: markAsRead(notificationId), up to its await.
MarkAsRead(notificationId) ==
    /\ session
    /\ requests' = Append(requests, [op |-> "read", skip |-> 0, base |-> <<>>,
                                     id |-> notificationId])
    /\ UNCHANGED <<session, notifications, unreadCount>>
    /\ UNCHANGED <<voiceVars, translateVars, chatVars>>

\* lines 105-111
MarkedRead(list, notificationId) ==
    [i \in 1..Len(list) |->
        IF list[i].id = notificationId THEN [list[i] EXCEPT !.isRead = TRUE] ELSE list[i]]

\* lines 104-117: the post settles; when it rejects nothing changes.
ReadSettled ==
    \E i \in 1..Len(requests) :
       /\ requests[i].op = "read"
       /\ requests' = RemoveAt(requests, i)
       /\ \/ /\ notifications' = MarkedRead(notifications, requests[i].id)
             /\ unreadCount' = Max0(unreadCount - 1)
          \/ UNCHANGED <<notifications, unreadCount>>
       /\ UNCHANGED session
       /\ UNCHANGED <<voiceVars, translateVars, chatVars>>

\* lines 121-144: markAllAsRead(), up to its await.
MarkAllAsRead ==
    /\ session
    /\ notifications # <<>>
    /\ Unread(notifications) # 0
    /\ requests' = Append(requests, [op |-> "readAll", skip |-> 0, base |-> <<>>,
                                     id |-> 0])
    /\ UNCHANGED <<session, notifications, unreadCount>>
    /\ UNCHANGED <<voiceVars, translateVars, chatVars>>

\* lines 146-157: all the posts settled; when one rejects nothing changes.
ReadAllSettled ==
    \E i \in 1..Len(requests) :
       /\ requests[i].op = "readAll"
       /\ requests' = RemoveAt(requests, i)
       /\ \/ /\ notifications' =
                    [k \in 1..Len(notifications) |->
                        [notifications[k] EXCEPT !.isRead = TRUE]]
             /\ unreadCount' = 0
          \/ UNCHANGED <<notifications, unreadCount>>
       /\ UNCHANGED session
       /\ UNCHANGED <<voiceVars, translateVars, chatVars>>

NextNotifications ==
    \/ Login
    \/ Len(requests) < MaxRequests /\ FetchNotifications
    \/ Len(requests) < MaxRequests /\ LoadMoreNotifications
    \/ FetchSettled
    \/ Len(notifications) < MaxNotifications /\ NotificationReceived
    \/ \E id \in {1, 2} : Len(requests) < MaxRequests /\ MarkAsRead(id)
    \/ ReadSettled
    \/ Len(requests) < MaxRequests /\ MarkAllAsRead
    \/ ReadAllSettled

(***************************************************************************)
(* The chatbot screen (chatBot.jsx): the history kept for the model.  One  *)
(* exchange is in progress at a time; clearChat may come at any time.      *)
(***************************************************************************)
HistoryLimit == 20

\* lines 344-351: the initial context.
InitialContext == <<"c", "t", "x">>
\* What the model answers.
Reply == <<"r">>
\* What the parent types.
UserInputs == {<<"a">>, <<"b">>}

Entry(role, text) == [role |-> role, text |-> text]

ChatIdle == [pc |-> "idle", userInput |-> <<>>]

\* slice(-n)
SliceFromEnd(seq, n) == IF Len(seq) <= n THEN seq ELSE SubSeq(seq, Len(seq) - n + 1, Len(seq))

\* lines 422-429
Trimmed(history) ==
    IF Len(history) > HistoryLimit
    THEN <<history[1]>> \o SliceFromEnd(history, HistoryLimit - 1)
    ELSE history

\* lines 416-420
Exchanged(history, userInput, responseText) ==
    history \o <<Entry("user", userInput), Entry("model", responseText)>>

\* lines 447-464 and 387-411: handleSend, up to the first await of
\* generateGeminiResponse.
HandleSend(userInput) ==
    /\ chat.pc = "idle"
    /\ chat' = [pc |-> IF isInitialized THEN "send" ELSE "init", userInput |-> userInput]
    /\ UNCHANGED <<chatHistory, isInitialized>>
    /\ UNCHANGED <<voiceVars, translateVars, notificationVars>>

\* lines 362-380 and 402-411: the context was sent and answered.
InitResolved ==
    /\ chat.pc = "init"
    /\ chatHistory' = <<Entry("user", InitialContext), Entry("model", Reply)>>
    /\ isInitialized' = TRUE
    /\ chat' = [chat EXCEPT !.pc = "send"]
    /\ UNCHANGED <<voiceVars, translateVars, notificationVars>>

\* lines 381-384 and 397-399
InitRejected ==
    /\ chat.pc = "init"
    /\ chat' = ChatIdle
    /\ UNCHANGED <<chatHistory, isInitialized>>
    /\ UNCHANGED <<voiceVars, translateVars, notificationVars>>

\* lines 414-440: the message was answered.
SendResolved ==
    /\ chat.pc = "send"
    /\ chatHistory' = Trimmed(Exchanged(chatHistory, chat.userInput, Reply))
    /\ chat' = ChatIdle
    /\ UNCHANGED isInitialized
    /\ UNCHANGED <<voiceVars, translateVars, notificationVars>>

\* lines 441-444
SendRejected ==
    /\ chat.pc = "send"
    /\ chat' = ChatIdle
    /\ UNCHANGED <<chatHistory, isInitialized>>
    /\ UNCHANGED <<voiceVars, translateVars, notificationVars>>

\* lines 505-520
ClearChat ==
    /\ chatHistory' = IF Len(chatHistory) > 0 THEN <<chatHistory[1]>> ELSE chatHistory
    /\ UNCHANGED <<isInitialized, chat>>
    /\ UNCHANGED <<voiceVars, translateVars, notificationVars>>

NextChat ==
    \/ \E userInput \in UserInputs : HandleSend(userInput)
    \/ InitResolved
    \/ InitRejected
    \/ SendResolved
    \/ SendRejected
    \/ ClearChat

Init ==
    /\ isReady = FALSE
    /\ isOnline = TRUE
    /\ isMuted = FALSE
    /\ queue = <<>>
    /\ processing = FALSE
    /\ retryCount = 0
    /\ lastApiCall = 0
    /\ audioCache = <<>>
    /\ soundRef = 0
    /\ sounds = {}
    /\ drain = DrainIdle
    /\ stopper = "idle"
    /\ retryTimers = <<>>
    /\ cooldownTimers = 0
    /\ translationCache = <<>>
    /\ tb = TbIdle
    /\ session = FALSE
    /\ notifications = <<>>
    /\ unreadCount = 0
    /\ requests = <<>>
    /\ chatHistory = <<>>
    /\ isInitialized = FALSE
    /\ chat = ChatIdle

\* The steps of the chain that every specification has.
Chain ==
    \/ DrainStopSettled
    \/ DrainUnloadSettled
    \/ CreateResolved
    \/ NetAudio
    \/ ThrottleElapsed
    \/ GapElapsed

\* Playback: a greeting with a bundled clip and a phrase without one, spoken
\* while screens call stopAudio, sounds end, connectivity changes and the
\* backend or the audio layer fails.
PlayCalls == {<<Hi, JStr(HI_IN), JStr(HOME)>>, <<Ok, JStr(TE), JNull>>}

Next ==
    \/ SetupAudio
    \/ NetInfoChange
    \/ \E c \in PlayCalls : Len(queue) < MaxQueue /\ SpeakText(c[1], c[2], c[3])
    \/ Chain
    \/ SecondElapsed
    \/ (retryCount < MaxFailures /\ CreateRejected)
    \/ (retryCount < MaxFailures /\ NetFailed)
    \/ StopAudio
    \/ StopperStopSettled
    \/ StopperUnloadSettled
    \/ PlaybackFinished

Spec == Init /\ [][Next]_vars

\* The facade: every kind of call, muting, and a backend that answers.
SpeakCalls ==
    {<<Hi, JStr(HI_IN), JStr(HOME)>>,
     <<LongText, JStr(TE), JNum>>,
     <<EdgeText, JStr(<<>>), JNull>>,
     <<<<>>, JStr(EN), JNull>>}

NextSpeak ==
    \/ SetupAudio
    \/ MuteChange
    \/ \E c \in SpeakCalls : Len(queue) < MaxPending /\ SpeakText(c[1], c[2], c[3])
    \/ Chain
    \/ SecondElapsed

SpecSpeak == Init /\ [][NextSpeak]_vars

\* The queue: a greeting with a bundled clip and a long text for the
\* backend, which answers with audio or with 429.
QueueCalls == {<<Hi, JStr(HI_IN), JStr(HOME)>>, <<LongText, JStr(TE), JStr(HOME)>>}

NextQueue ==
    \/ SetupAudio
    \/ \E c \in QueueCalls : Len(queue) < MaxBacklog /\ SpeakText(c[1], c[2], c[3])
    \/ Chain
    \/ SecondElapsed
    \/ (retryCount < MaxFailures /\ Len(retryTimers) < MaxTimers /\ Net429)
    \/ RetryElapsed

SpecQueue == Init /\ [][NextQueue]_vars

\* The same, with screens that speak a phrase again only once it is no
\* longer waiting, and with the platform settling what the chain awaits:
\* timers fire, and the audio layer and the backend (15 s timeout) answer.
Waiting(req) ==
    \/ \E i \in 1..Len(queue) : queue[i] = req
    \/ \E i \in 1..Len(retryTimers) : retryTimers[i].req = req
    \/ drain.pc \notin {"idle", "gap"} /\ drain.req = req

OnceCalls == QueueCalls \cup {<<Ok, JStr(TE), JNull>>}

NextOnce ==
    \/ SetupAudio
    \/ \E c \in OnceCalls :
          ~Waiting(NormRequest(c[1], c[2], c[3])) /\ SpeakText(c[1], c[2], c[3])
    \/ Chain
    \/ SecondElapsed
    \/ (retryCount < MaxFailures /\ Len(retryTimers) < MaxTimers /\ Net429)
    \/ RetryElapsed

FairQueue ==
    /\ Init
    /\ [][NextOnce]_vars
    /\ WF_vars(Chain)
    /\ WF_vars(SecondElapsed)
    /\ WF_vars(RetryElapsed)

\* The cache: screens speak their phrases one after the other, each a text
\* of its own, and come back to the first; the backend answers with audio.
Phrase(i) == Rep(i, "x")

PhraseIndex(key) == Len(key) - Len(CacheKey(<<>>, TE))

NextPhrase ==
    IF audioCache = <<>>
    THEN 1
    ELSE 1 + CHOOSE m \in 1..MaxPhrases :
                /\ \E i \in 1..Len(audioCache) : PhraseIndex(audioCache[i].key) = m
                /\ \A i \in 1..Len(audioCache) : PhraseIndex(audioCache[i].key) <= m

NextCache ==
    \/ SetupAudio
    \/ \E n \in {1, NextPhrase} :
          /\ n <= MaxPhrases
          /\ queue = <<>>
          /\ SpeakText(Phrase(n), JStr(TE), JNull)
    \/ Chain
    \/ SecondElapsed

SpecCache == Init /\ [][NextCache]_vars

\* Failures: a greeting whose bundled clip may fail to play, which sends it
\* to the backend; every answer of the backend and a createAsync that
\* rejects, with a screen that calls stopAudio.
ErrCalls == {<<Hi, JStr(HI_IN), JStr(HOME)>>}

NextErrors ==
    \/ SetupAudio
    \/ \E c \in ErrCalls : Len(queue) < MaxQueue /\ SpeakText(c[1], c[2], c[3])
    \/ Chain
    \/ SecondElapsed
    \/ (retryCount < MaxFailures /\ CreateRejected)
    \/ (retryCount < MaxFailures /\ NetEmpty)
    \/ (retryCount < MaxFailures /\ Len(retryTimers) < MaxTimers /\ Net429)
    \/ (retryCount < MaxFailures /\ Net401)
    \/ (retryCount < MaxFailures /\ NetFailed)
    \/ RetryElapsed
    \/ StopAudio
    \/ StopperStopSettled
    \/ StopperUnloadSettled

SpecErrors == Init /\ [][NextErrors]_vars

\* The chain under every answer of the backend, with the platform settling
\* what the chain awaits and firing its timers.
NextDrain ==
    \/ SetupAudio
    \/ \E c \in PlayCalls : Len(queue) < MaxQueue /\ SpeakText(c[1], c[2], c[3])
    \/ Chain
    \/ SecondElapsed
    \/ (retryCount < MaxFailures /\ CreateRejected)
    \/ (retryCount < MaxFailures /\ NetEmpty)
    \/ (retryCount < MaxFailures /\ Len(retryTimers) < MaxTimers /\ Net429)
    \/ (retryCount < MaxFailures /\ Net401)
    \/ (retryCount < MaxFailures /\ NetFailed)
    \/ RetryElapsed

FairDrain ==
    /\ Init
    /\ [][NextDrain]_vars
    /\ WF_vars(Chain)
    /\ WF_vars(SecondElapsed)
    /\ WF_vars(RetryElapsed)

\* Three phrases without a bundled clip, each spoken once and all of them
\* before the backend has answered the first; the backend answers with
\* audio, and sounds may play to their end.
One == <<"O", "n", "e">>
Two == <<"T", "w", "o">>
Six == <<"S", "i", "x">>

ThreeCalls ==
    {<<One, JStr(TE), JNull>>, <<Two, JStr(HI_IN), JNull>>, <<Six, JStr(TE), JStr(HOME)>>}

NextThree ==
    \/ SetupAudio
    \/ \E c \in ThreeCalls :
          /\ audioCache = <<>>
          /\ ~Waiting(NormRequest(c[1], c[2], c[3]))
          /\ SpeakText(c[1], c[2], c[3])
    \/ Chain
    \/ SecondElapsed
    \/ PlaybackFinished

SpecThree == Init /\ [][NextThree]_vars

\* Languages: one phrase spoken in one language code after the other, each
\* once the one before it was synthesized; sounds may play to their end.
LangCodes ==
    << <<"t", "e">>, <<"t", "a", "-", "I", "N">>, <<"k", "n", "-", "I", "N">>,
       <<"b", "n">>, <<"p", "a", "-", "I", "N">>, <<"m", "r">>, <<"g", "u">>,
       <<"h", "i", "-", "I", "N">>, <<"e", "n">>, <<"e", "n", "-", "t", "e">>,
       <<"T", "E">>, <<"-", "t", "e">>, <<"t", "e", "l">> >>

NextLang ==
    \/ SetupAudio
    \/ /\ Len(audioCache) < Len(LangCodes)
       /\ ~Waiting(NormRequest(Ok, JStr(LangCodes[Len(audioCache) + 1]), JNull))
       /\ SpeakText(Ok, JStr(LangCodes[Len(audioCache) + 1]), JNull)
    \/ Chain
    \/ SecondElapsed
    \/ PlaybackFinished

SpecLang == Init /\ [][NextLang]_vars

\* Authorization: the backend answers with audio or with 401, and the
\* five-minute timer fires.
NextAuth ==
    \/ SetupAudio
    \/ \E c \in PlayCalls : Len(queue) < MaxQueue /\ SpeakText(c[1], c[2], c[3])
    \/ Chain
    \/ SecondElapsed
    \/ (retryCount < MaxAuthFailures /\ cooldownTimers < MaxTimers /\ Net401)
    \/ CooldownElapsed

SpecAuth == Init /\ [][NextAuth]_vars

\* Cache keys: a phrase in a language code with an underscore, and the
\* phrase that ends where that code begins.
KeyCalls ==
    {<<Hi, JStr(<<"t", "e", "_", "I", "N">>), JNull>>,
     <<Hi \o <<"_", "t", "e">>, JStr(<<"I", "N">>), JNull>>}

NextKeys ==
    \/ SetupAudio
    \/ \E c \in KeyCalls : Len(queue) < MaxQueue /\ SpeakText(c[1], c[2], c[3])
    \/ Chain
    \/ SecondElapsed

SpecKeys == Init /\ [][NextKeys]_vars

\* Translation: a short string and a longer one, a blank and an empty one,
\* in the three shapes of texts, against every answer of the backend.
TranslateCalls ==
    {TextsArray(<<Hi, Hello>>), TextsObjects(<<Blank, Hello>>), TextsString(<<>>)}

NextTranslate ==
    \/ \E texts \in TranslateCalls : TranslateBatch(texts, EN, TE)
    \/ TranslateStep

SpecTranslate == Init /\ [][NextTranslate]_vars

\* Every fetch settles and every back-off timer fires.
FairTranslate == SpecTranslate /\ WF_vars(TranslateStep)

\* The translation cache: strings of growing length are translated one after
\* the other, the first of them again at any time; the backend refuses
\* (403), limits (429) or is out of reach, so every result is a fallback.
Text(n) == TextsString(Rep(n, "x"))

TextIndex(texts) == Len(texts.items[1])

\* The longest string translated so far.
LastText ==
    IF translationCache = <<>>
    THEN 0
    ELSE CHOOSE m \in 1..MaxTexts :
            /\ \E i \in 1..Len(translationCache) :
                   TextIndex(translationCache[i].key[1]) = m
            /\ \A i \in 1..Len(translationCache) :
                   TextIndex(translationCache[i].key[1]) <= m

NextTranslationCache ==
    \/ \E n \in {1, LastText + 1} : n <= MaxTexts /\ TranslateBatch(Text(n), EN, TE)
    \/ Fetch403
    \/ FetchFailed
    \/ Fetch429
    \/ BackoffElapsed

SpecTranslationCache == Init /\ [][NextTranslationCache]_vars

\* The notification provider on its own.
SpecNotifications == Init /\ [][NextNotifications]_vars

\* The chatbot on its own.
SpecChat == Init /\ [][NextChat]_vars

(***************************************************************************)
(* Claims.                                                                 *)
(***************************************************************************)
ClipUri(req) == AudioUri(StoredAudio(req))

\* C1: at every instant at most one sound of the provider is playing.
OneLiveHandle == Cardinality(sounds) <= 1

\* C6: the backend is being called for a request only while the cache holds
\* no entry for its (text, languageCode): a request the cache has an entry
\* for never reaches the backend, however the playback of the entry ends.
NetworkOnlyOnCacheMiss ==
    /\ drain.pc = "net" =>
          ~CacheHas(audioCache, CacheKey(drain.req.text, drain.req.languageCode))
    /\ drain.kind = "cached" =>
          /\ drain.pc \in {"create", "gap"}
          /\ drain.uri = CacheGet(audioCache,
                                  CacheKey(drain.req.text, drain.req.languageCode))

\* A cached URI was handed to playback and could not be played.
CachedAudioRejected ==
    /\ drain.pc = "gap"
    /\ drain.kind = "cached"
    /\ drain.res = "rejected"

InQueue(req) == \E i \in 1..Len(queue) : queue[i] = req

\* A step that hands a request to performSpeak.
Dequeues == drain.pc \in {"idle", "gap"} /\ drain'.pc \notin {"idle", "gap"}

\* C2: the request handed to performSpeak is always the oldest one of the
\* queue and is removed from its head, nothing is dequeued while a request is
\* being processed, and the queue otherwise only grows at its tail (which is
\* where a request answered with 429 comes back).
FifoOneAtATime ==
    [][/\ Dequeues =>
             IF queue # <<>>
             THEN drain'.req = Head(queue) /\ queue' = Tail(queue)
             ELSE queue' = <<>>
       /\ ~Dequeues =>
             /\ drain.pc \notin {"idle", "gap"} => drain'.req = drain.req
             /\ queue' = queue \/ \E i \in 1..Len(queue') : queue' = Append(queue, queue'[i])
      ]_vars

\* Two different requests wait while a third is being processed and a
\* request answered with 429 waits for its timer.
BacklogBehindRetry ==
    /\ Len(queue) >= 2
    /\ queue[1] # queue[2]
    /\ drain.pc = "create"
    /\ retryTimers # <<>>

\* C3: a request waiting in the queue is eventually handed to performSpeak,
\* and a request leaves the queue only by being handed to performSpeak, from
\* the head, while no other request is being processed.
NoRequestDropped ==
    /\ \A c \in OnceCalls :
          LET r == NormRequest(c[1], c[2], c[3])
          IN InQueue(r) ~> (~InQueue(r) /\ drain.req = r /\ drain.pc # "idle")
    /\ [][\A c \in OnceCalls :
            LET r == NormRequest(c[1], c[2], c[3])
            IN (InQueue(r) /\ ~InQueue(r)') =>
                  /\ Dequeues
                  /\ Head(queue) = r
                  /\ queue' = Tail(queue)
                  /\ drain'.req = r
         ]_vars

\* The greeting is handed to playback after the backend was called for an
\* earlier request, with two more requests waiting behind it.
HandedWithOthersWaiting ==
    /\ drain.req = NormRequest(Hi, JStr(HI_IN), JStr(HOME))
    /\ drain.pc = "create"
    /\ lastApiCall # 0
    /\ Len(queue) = 2

Synthesized == drain.pc = "net" /\ drain'.pc = "create"

\* C5: the cache never holds more than 50 entries; a successful synthesis
\* appends its entry behind the entries held, dropping the first-inserted
\* one, and only that one, when 50 are held; nothing else changes the cache.
OldestEvicted ==
    [][/\ Len(audioCache') <= CacheCap
       /\ Synthesized =>
             audioCache' =
                Append(IF Len(audioCache) = CacheCap THEN Tail(audioCache) ELSE audioCache,
                       [key |-> CacheKey(drain.req.text, drain.req.languageCode),
                        uri |-> drain'.uri])
       /\ ~Synthesized => audioCache' = audioCache
      ]_vars

\* The cache is full, the first phrase, although it was played from the
\* cache again after the others were inserted, is gone, and the second
\* phrase is now the oldest.
FirstPhraseEvicted ==
    /\ Len(audioCache) = CacheCap
    /\ ~CacheHas(audioCache, CacheKey(Phrase(1), TE))
    /\ audioCache[1].key = CacheKey(Phrase(2), TE)

\* The text speakText has to pass on for the text it was called with.
PassedOn(text, passed) ==
    IF Len(text) <= TruncLen
    THEN passed = text
    ELSE /\ Len(passed) = TruncLen + 3
         /\ \A i \in 1..TruncLen : passed[i] = text[i]
         /\ \A i \in TruncLen + 1..TruncLen + 3 : passed[i] = "."

\* C8: the text of the request an accepted speakText call appends to the
\* queue, or hands to the drain it starts, is the text of the call when that
\* has at most 300 characters, and otherwise its first 300 characters
\* followed by "..."; the text synthesis is called with is such a text.
TextPassedOn ==
    /\ [](drain.pc = "net" => \E c \in SpeakCalls : PassedOn(c[1], drain.req.text))
    /\ [][\A c \in SpeakCalls :
            (isReady /\ c[1] # <<>> /\ ~isMuted /\ SpeakText(c[1], c[2], c[3])) =>
                IF processing
                THEN /\ Len(queue') = Len(queue) + 1
                     /\ PassedOn(c[1], queue'[Len(queue')].text)
                ELSE PassedOn(c[1], drain'.req.text)
         ]_vars

\* A text of 300 characters waits unchanged behind a text of 301 characters
\* that was cut, while the cut text of an earlier call is being synthesized.
CutAndUncutQueued ==
    /\ Len(queue) = 2
    /\ queue[1].text = Substring0(LongText, TruncLen) \o <<".", ".", ".">>
    /\ queue[2].text = EdgeText
    /\ drain.pc = "net"
    /\ Len(drain.req.text) = TruncLen + 3

\* C9 as stated: no request of the queue has a text of more than 300
\* characters.
QueueTextsWithinLimit == \A i \in 1..Len(queue) : Len(queue[i].text) <= TruncLen

\* C9, amended: no request of the queue has a text of more than 303
\* characters, the 300 kept and the three of the ellipsis marker.
QueueTextsWithinMarkedLimit ==
    \A i \in 1..Len(queue) : Len(queue[i].text) <= TruncLen + Len(Ellipsis)

\* A cut text was answered with 429 and is back in the queue, at the tail,
\* with its 303 characters.
MarkedTextRequeued ==
    /\ retryCount = 1
    /\ retryTimers = <<>>
    /\ queue # <<>>
    /\ Len(queue[Len(queue)].text) = TruncLen + Len(Ellipsis)
    /\ drain.res = "429"

\* C10: a speakText call made while the provider is not ready, with an empty
\* text, or while muted changes neither the queue, the processing flag, the
\* sound held, the cache nor the retry counter, and starts no drain.
RejectedSpeakIsNoOp ==
    [][\A c \in SpeakCalls :
          ((~isReady \/ c[1] = <<>> \/ isMuted) /\ SpeakText(c[1], c[2], c[3])) =>
              UNCHANGED <<queue, processing, soundRef, sounds, audioCache, retryCount,
                          drain, lastApiCall>>
      ]_vars

\* The provider is ready and muted while requests accepted earlier wait.
MutedWithBacklog ==
    /\ isReady
    /\ isMuted
    /\ processing
    /\ queue # <<>>

\* How a request can end without being played.
FailureRes == {"rejected", "empty", "429", "401", "failed"}

\* C11: whatever the backend answers and whether or not the sound can be
\* created, the chain keeps its request and the processing flag and goes on
\* to the 500 ms timer of processQueue (or, after a bundled clip that could
\* not be played, to the cache and the backend); a stopAudio in progress is
\* not disturbed and ends by itself; a request that failed sits at that
\* timer with the flag set.
ErrorsAbsorbed ==
    /\ [](/\ drain.res \in FailureRes => drain.pc = "gap" /\ processing
          /\ stopper \in {"idle", "stop", "unload"})
    /\ [][(drain.pc \in {"net", "create"} /\ drain' # drain) =>
             /\ processing'
             /\ drain'.pc \in {"gap", "create", "net"}
             /\ drain'.req = drain.req
             /\ stopper' = stopper
         ]_vars

\* The backend call failed while a stopAudio of a screen waits for
\* unloadAsync.
FailedDuringStop ==
    /\ drain.res = "failed"
    /\ drain.pc = "gap"
    /\ stopper = "unload"

\* C12: the steps of a stopAudio call change nothing but the sound held and
\* what is playing: the call asks the sound held to stop, ends with no
\* sound held, and with no sound held changes nothing at all; the queue, the
\* chain, the flag, the cache, the counter and the timers are as before.
StopOnlyHandle ==
    [][/\ (stopper' # stopper \/ StopAudio) =>
             UNCHANGED <<isReady, isOnline, isMuted, queue, processing, retryCount,
                         lastApiCall, audioCache, drain, retryTimers, cooldownTimers>>
       /\ (stopper = "idle" /\ stopper' = "stop") =>
             /\ soundRef # 0
             /\ sounds' = {s \in sounds : s.id # soundRef}
       /\ (stopper # "idle" /\ stopper' = "idle") => soundRef' = 0
       /\ (soundRef = 0 /\ StopAudio) => UNCHANGED vars
      ]_vars

\* A stopAudio call waits for unloadAsync while a request is being
\* processed and another one waits in the queue.
StopWithPending ==
    /\ stopper = "unload"
    /\ queue # <<>>
    /\ drain.pc \in {"create", "net"}

Idle == ~processing /\ queue = <<>> /\ drain.pc = "idle"

\* A speakText call of a screen.
Speaks == \E c \in PlayCalls : SpeakText(c[1], c[2], c[3])

ThreeSequentialCalls ==
    /\ [](/\ Len(audioCache) <= 3
          /\ drain.pc = "net" =>
                /\ ~CacheHas(audioCache, CacheKey(drain.req.text, drain.req.languageCode))
                /\ \A i \in 1..Len(queue) :
                      ~CacheHas(audioCache,
                                CacheKey(queue[i].text, queue[i].languageCode))
          /\ (Idle /\ Len(audioCache) = 3) =>
                sounds \subseteq {[id |-> soundRef, uri |-> audioCache[3].uri]})
    /\ [][/\ (Dequeues /\ queue # <<>>) => drain'.req = Head(queue)
          /\ (drain.pc # "net" /\ drain'.pc = "net" /\ ~Dequeues) => drain'.req = drain.req
          /\ (drain.pc = "net" /\ drain'.pc # "net") =>
                /\ Len(audioCache') = Len(audioCache) + 1
                /\ audioCache'[Len(audioCache')].key =
                      CacheKey(drain.req.text, drain.req.languageCode)
         ]_vars

\* All three phrases were synthesized, the chain is idle and the third
\* phrase is playing.
ThirdPlaying ==
    /\ Idle
    /\ Len(audioCache) = 3
    /\ sounds = {[id |-> soundRef, uri |-> audioCache[3].uri]}

\* The part of a language code before its first "-".
IsBaseOf(base, languageCode) ==
    /\ \A i \in 1..Len(base) : base[i] # "-"
    /\ \/ languageCode = base
       \/ /\ Len(languageCode) > Len(base)
          /\ SubSeq(languageCode, 1, Len(base) + 1) = base \o <<"-">>

\* C15: the audio the backend returns for a request was synthesized in the
\* part of the request's language code before the first "-" ("en" when that
\* part is empty), by the Dravidian service when that part is te, ta or kn and
\* by the Indo-Aryan service for every other language; so is every entry of
\* the cache.
ServiceByFamily ==
    /\ [](\A i \in 1..Len(audioCache) :
            LET audio == audioCache[i].uri.data
            IN audio.by = IF audio.b \in {<<"t", "e">>, <<"t", "a">>, <<"k", "n">>}
                          THEN "ai4bharat/indic-tts-dravidian--gpu-t4"
                          ELSE "ai4bharat/indic-tts-indo-aryan--gpu-t4")
    /\ [][(drain.pc = "net" /\ drain'.pc = "create") =>
             /\ drain'.uri = audioCache'[Len(audioCache')].uri
             /\ \/ IsBaseOf(drain'.uri.data.b, drain.req.languageCode)
                \/ /\ drain.req.languageCode[1] = "-"
                   /\ drain'.uri.data.b = <<"e", "n">>
         ]_vars

\* Every language code was synthesized: te, ta-IN and kn-IN by the Dravidian
\* service, en-te by the other.
AllLanguagesSynthesized ==
    /\ Len(audioCache) = Len(LangCodes)
    /\ audioCache[2].uri.data.by = "ai4bharat/indic-tts-dravidian--gpu-t4"
    /\ audioCache[10].uri.data.by = "ai4bharat/indic-tts-indo-aryan--gpu-t4"

\* C16: while a five-minute timer armed by a 401 with the counter above 3
\* is pending, the backend is not being called.
SynthesisPaused == cooldownTimers > 0 => drain.pc # "net"

\* C17: a request that ends with anything but a 429 (no audio content, 401,
\* another failure of the call, a sound that cannot be created) arms no
\* retry timer and is not put back into the queue; the chain keeps the flag
\* and its next step takes the head of the queue, or ends when there is none.
AbandonedUnless429 ==
    [][/\ (drain.pc \in {"net", "create"} /\ drain'.pc = "gap"
            /\ drain'.res \in FailureRes \ {"429"}) =>
             /\ retryTimers' = retryTimers
             /\ queue' = queue
             /\ processing'
       /\ (drain.pc = "gap" /\ drain.res \in FailureRes \ {"429"} /\ drain' # drain) =>
             IF queue = <<>>
             THEN drain'.pc = "idle" /\ ~processing' /\ queue' = <<>>
             ELSE drain'.req = Head(queue) /\ queue' = Tail(queue) /\ drain'.pc # "idle"
      ]_vars

\* A request was answered with 401 and the next one waits, with no retry
\* timer pending.
AbandonedBeforeNext ==
    /\ drain.pc = "gap"
    /\ drain.res = "401"
    /\ queue # <<>>
    /\ retryTimers = <<>>

\* C18: createAsync is not called, for a bundled clip, a cached URI or the
\* backend's audio, in a step taken while the mute flag is set.
NoPlaybackWhileMuted ==
    [][(drain.pc # "create" /\ drain'.pc = "create") => ~isMuted]_vars

\* C19: the processing flag is set exactly while a chain exists; a speakText
\* call or a retry timer touches the chain only to start one when the flag
\* is cleared and none exists; and the queue gets shorter only by the step
\* in which the chain takes its next request.
OneDrainLoop ==
    /\ [](processing <=> drain.pc # "idle")
    /\ [][((drain' # drain
            /\ (Len(retryTimers') < Len(retryTimers)
                \/ \E c \in QueueCalls : SpeakText(c[1], c[2], c[3])))
              => (~processing /\ drain.pc = "idle" /\ processing'))
          /\ (Len(queue') < Len(queue)
                => (Dequeues /\ Len(queue') = Len(queue) - 1))
         ]_vars

\* A retry timer has fired while the chain was busy: the long text is back
\* at the tail of the queue and the chain plays a greeting.
RetryFiredDuringDrain ==
    /\ processing
    /\ drain.pc = "create"
    /\ drain.req.text = Hi
    /\ retryCount = 1
    /\ retryTimers = <<>>
    /\ Len(queue) >= 2
    /\ queue[Len(queue)].text # Hi

\* A step in which processQueue calls performSpeak (line 171).
PerformSpeakCalled ==
    \/ drain.pc = "throttle" /\ drain'.pc # "throttle"
    \/ /\ drain.pc \in {"idle", "gap"}
       /\ drain'.pc \notin {"idle", "throttle"}
       /\ processing'
       /\ ~processing \/ (queue # <<>> /\ queue' = Tail(queue))

\* C20: the isOnline that performSpeak tests at line 211 for a request is
\* the connectivity state at the time performSpeak is called for it.
CurrentConnectivityUsed == [][PerformSpeakCalled => drain'.online = isOnline]_vars

\* C21: the retry counter grows only in a step in which a request is
\* answered with 401.
CounterCounts401 ==
    [][retryCount' > retryCount =>
          (drain.pc = "net" /\ drain'.pc = "gap" /\ drain'.res = "401")]_vars

\* C22: a request whose backend response carried audio content ends, whether
\* or not its sound could be created, with the retry counter at zero and
\* with the cache mapping its (text, languageCode) to the synthesized URI.
SynthesisResetsAndCaches ==
    (drain.pc = "gap" /\ drain.kind = "net" /\ drain.res \in {"played", "rejected"}) =>
        /\ retryCount = 0
        /\ CacheHas(audioCache, CacheKey(drain.req.text, drain.req.languageCode))
        /\ CacheGet(audioCache, CacheKey(drain.req.text, drain.req.languageCode))
              = drain.uri

\* C23: the backend is called, and the timestamp of the call set, only when
\* the timestamp of the call before is at least 1000 ms old (or there was no
\* call before), whatever was played from the cache or from bundled clips in
\* between.
CallsASecondApart ==
    [][(drain.pc # "net" /\ drain'.pc = "net") =>
          (lastApiCall # 1 /\ lastApiCall' = 1)]_vars

\* The backend is called again after it answered with 429 and the retry
\* timer has fired, with a request waiting in the queue.
CalledAgainAfterRetry ==
    /\ drain.pc = "net"
    /\ retryCount = 1
    /\ retryTimers = <<>>
    /\ lastApiCall = 1
    /\ queue # <<>>

\* C24: the URI the cache returns for a request is the audio that was
\* synthesized from the text of the request in the language of the request.
CacheEntryOfSamePair ==
    drain.kind = "cached" =>
        /\ drain.uri.data.a = drain.req.text
        /\ drain.uri.data.b = BaseLanguage(drain.req.languageCode)

TranslateBatchReturns ==
    /\ [](tb.retryCount <= MAX_RETRIES)
    /\ [][(tb.pc = "fetch" /\ tb.retryCount = MAX_RETRIES) => tb'.pc # "backoff"]_vars
    /\ (tb.pc \in {"fetch", "backoff"} ~> tb.pc = "done")

\* A call returned after its fourth pass met a 429 again.
ReturnedAfterFourthPass ==
    /\ tb.pc = "done"
    /\ tb.retryCount = MAX_RETRIES
    /\ \E k \in 1..Len(tb.answers) : tb.answers[k].kind = "429"
    /\ Len(tb.result) = Len(tb.texts.items)

\* C27 as stated: for an array, the result of a call that went through its
\* loop has one entry per input in input order, whose source is the input
\* and whose target is what the backend answered for it or the input, and
\* is not empty unless the input is.
OneEntryPerInput ==
    (tb.pc = "done" /\ ~tb.hit /\ tb.texts.shape # "string") =>
        /\ Len(tb.result) = Len(tb.texts.items)
        /\ \A k \in 1..Len(tb.texts.items) :
              /\ tb.result[k].source = tb.texts.items[k]
              /\ \/ tb.result[k].target = tb.texts.items[k]
                 \/ /\ tb.answers[k].kind = "200"
                    /\ tb.result[k].target = tb.answers[k].text
              /\ tb.texts.items[k] # <<>> => tb.result[k].target # <<>>

\* C27 amended: as above, where the target may also be the answer of the
\* backend without its final period when the input has fewer than 5
\* characters (the period that was added to the input is taken off).
OneEntryPerInputPeriodOff ==
    (tb.pc = "done" /\ ~tb.hit /\ tb.texts.shape # "string") =>
        /\ Len(tb.result) = Len(tb.texts.items)
        /\ \A k \in 1..Len(tb.texts.items) :
              /\ tb.result[k].source = tb.texts.items[k]
              /\ \/ tb.result[k].target = tb.texts.items[k]
                 \/ /\ tb.answers[k].kind = "200"
                    /\ tb.result[k].target = tb.answers[k].text
                 \/ /\ tb.answers[k].kind = "200"
                    /\ Len(tb.texts.items[k]) < ShortLen
                    /\ EndsWith(tb.answers[k].text, ".")
                    /\ tb.result[k].target = SliceLast(tb.answers[k].text)
              /\ tb.texts.items[k] # <<>> => tb.result[k].target # <<>>

\* An array came back with a translation for its first item, the period
\* taken off, and the source text for its second, which the backend refused.
MixedOutcomesReturned ==
    /\ tb.pc = "done"
    /\ ~tb.hit
    /\ tb.texts = TextsArray(<<Hi, Hello>>)
    /\ tb.answers[1] = [kind |-> "200", text |-> Tr \o Dot]
    /\ tb.result[1].target = Tr
    /\ tb.answers[2].kind = "403"
    /\ tb.result[2].target = Hello

\* A call of translateBatch is made by this step.
TranslateBatchCalled == tb.pc \in {"idle", "done"} /\ tb' # tb

\* C28 as stated: the result of a call that went through its loop is in the
\* cache when the call returns, and a call whose texts were translated
\* before (they are no longer than the longest translated so far) returns
\* at once, without a fetch.
LaterCallAlwaysCached ==
    /\ [](tb.pc = "done" /\ ~tb.hit =>
             TranslationCacheHas(translationCache,
                 TranslationCacheKey(tb.texts, tb.sourceLanguage, tb.targetLanguage)))
    /\ [][(TranslateBatchCalled /\ TextIndex(tb'.texts) <= LastText)
             => (tb'.pc = "done" /\ tb'.hit)]_vars

\* C28 amended: the result of a call that went through its loop is in the
\* cache when the call returns and stays there until it is the oldest of
\* 100 entries and a new one is stored; a call whose key is in the cache
\* returns the cached result at once, without a fetch, and leaves the cache
\* as it is.
LaterCallCachedUntilEvicted ==
    /\ [](tb.pc = "done" /\ ~tb.hit =>
             /\ TranslationCacheHas(translationCache,
                    TranslationCacheKey(tb.texts, tb.sourceLanguage, tb.targetLanguage))
             /\ TranslationCacheGet(translationCache,
                    TranslationCacheKey(tb.texts, tb.sourceLanguage, tb.targetLanguage))
                 = tb.result)
    /\ [][\/ Len(translationCache') = Len(translationCache) + 1
             /\ SubSeq(translationCache', 1, Len(translationCache)) = translationCache
          \/ /\ Len(translationCache) = TranslationCacheCap
             /\ SubSeq(translationCache', 1, TranslationCacheCap - 1)
                = Tail(translationCache)]_translationCache
    /\ [][(/\ TranslateBatchCalled
            /\ TranslationCacheHas(translationCache,
                   TranslationCacheKey(tb'.texts, tb'.sourceLanguage, tb'.targetLanguage)))
             => /\ tb'.pc = "done"
                /\ tb'.hit
                /\ tb'.result = TranslationCacheGet(translationCache,
                       TranslationCacheKey(tb'.texts, tb'.sourceLanguage,
                                           tb'.targetLanguage))
                /\ translationCache' = translationCache]_vars

\* The first string was translated again from the full cache, and the
\* cached result returned: its target is the untranslated source.
FallbackReturnedFromCache ==
    /\ tb.pc = "done"
    /\ tb.hit
    /\ tb.texts = Text(1)
    /\ tb.result = <<[source |-> Rep(1, "x"), target |-> Rep(1, "x")]>>
    /\ Len(translationCache) = TranslationCacheCap

\* C29: unreadCount is the number of notifications of the list that are not
\* read, and is not negative.
UnreadCountMatches ==
    /\ unreadCount = Unread(notifications)
    /\ unreadCount >= 0

\* C30: the history kept for the model has at most 20 entries, begins with
\* the initial context in the user role, and its roles alternate, user first.
HistoryAlternates ==
    /\ Len(chatHistory) <= HistoryLimit
    /\ chatHistory # <<>> => chatHistory[1] = Entry("user", InitialContext)
    /\ \A k \in 1..Len(chatHistory) :
          chatHistory[k].role = IF k % 2 = 1 THEN "user" ELSE "model"

====
